---------------------------- MODULE Spec2Model ----------------------------
(***************************************************************************)
(* Metrics reporter of src/utils.py: calc_metrics_log_summaries computes   *)
(* weighted precision / recall and the per-class report of one evaluation  *)
(* pass and writes five records to a tensorboardX SummaryWriter.           *)
(*                                                                         *)
(* Python floats are modelled as exact rationals <<numerator, denominator>>*)
(* in lowest terms.  The scikit-learn calls of lines 120, 135 and 150 are  *)
(* modelled by what the library computes for average='weighted',          *)
(* zero_division=1 and output_dict=True; the f1-score column of the report *)
(* is not modelled (nothing in utils.py reads it).                         *)
(***************************************************************************)
EXTENDS Integers, Sequences, FiniteSets, TLC

VARIABLES
  pc,        \* "start": no writer yet; "ready": writer open; "raised": an exception left the handler
  writer,    \* the records the SummaryWriter has accepted, oldest first
  ncalls,    \* calls of calc_metrics_log_summaries made so far
  call,      \* arguments of the latest call
  computed,  \* the handler's locals after line 96 of the latest call
  attempts,  \* add_scalar / add_scalars calls made on the writer by the latest call
  result,    \* what the latest call handed to its caller
  prev       \* call and result of the call before the latest

vars == <<pc, writer, ncalls, call, computed, attempts, result, prev>>

---------------------------------------------------------------------------
(* Bounds of the checked instances *)

MaxLen == 4          \* longest label vector of Spec
NumClasses == 2      \* class indices 0 .. NumClasses-1 of Spec
SinkMaxLen == 2      \* longest vector of SpecSink
SinkNumClasses == 2  \* class indices of SpecSink
TwiceMaxLen == 1     \* longest vector of SpecTwice
MaxStep == 1         \* step numbers 0 .. MaxStep

RunTypes == {"train", "val"}

---------------------------------------------------------------------------
(* Float arithmetic, exact *)

RECURSIVE Gcd(_, _)
Gcd(a, b) == IF b = 0 THEN a ELSE Gcd(b, a % b)

Abs(a) == IF a < 0 THEN -a ELSE a

\* n/d in lowest terms with a positive denominator (d # 0)
Frac(n, d) ==
  LET g == Gcd(Abs(n), Abs(d))
      s == IF d < 0 THEN -1 ELSE 1
  IN  <<(s * n) \div g, (s * d) \div g>>

Zero == Frac(0, 1)
One == Frac(1, 1)

FAdd(a, b) == Frac(a[1] * b[2] + b[1] * a[2], a[2] * b[2])
FMul(a, b) == Frac(a[1] * b[1], a[2] * b[2])
FDiv(a, b) == Frac(a[1] * b[2], a[2] * b[1])
FLe(a, b) == a[1] * b[2] <= b[1] * a[2]

Losses == {Frac(1, 2), Frac(3, 1)}

---------------------------------------------------------------------------
(* Vectors *)

Vectors(maxlen, nclasses) ==
  UNION {[1..n -> 0..(nclasses - 1)] : n \in 1..maxlen}

Range(s) == {s[i] : i \in DOMAIN s}

\* str() of a non-negative integer
Digit == <<"0", "1", "2", "3", "4", "5", "6", "7", "8", "9">>

RECURSIVE str(_)
str(c) == IF c < 10 THEN Digit[c + 1] ELSE str(c \div 10) \o Digit[(c % 10) + 1]


---------------------------------------------------------------------------
(* scikit-learn, as called by lines 120, 135 and 150 *)

\* faulty variant: only requires a prediction for every label
check_consistent_length_at_least(ys, y_preds) == Len(ys) <= Len(y_preds)

\* sklearn.utils.check_consistent_length: scoring raises ValueError otherwise
check_consistent_length(ys, y_preds) == Len(ys) = Len(y_preds)

\* sklearn.utils.multiclass.unique_labels: the classes of either vector, ascending
RECURSIVE sorted(_)
sorted(S) ==
  IF S = {} THEN <<>>
  ELSE LET m == CHOOSE x \in S : \A y \in S : x <= y
       IN  <<m>> \o sorted(S \ {m})

unique_labels(ys, y_preds) == sorted(Range(ys) \cup Range(y_preds))

\* faulty variant: the count starts at the second position
tp_sum_skips_first(ys, y_preds, c) ==
  Cardinality({i \in DOMAIN ys : i > 1 /\ ys[i] = c /\ y_preds[i] = c})

\* the three sums of the per-class confusion matrix
tp_sum(ys, y_preds, c) == Cardinality({i \in DOMAIN ys : ys[i] = c /\ y_preds[i] = c})
pred_sum(ys, y_preds, c) == Cardinality({i \in DOMAIN y_preds : y_preds[i] = c})
true_sum(ys, y_preds, c) == Cardinality({i \in DOMAIN ys : ys[i] = c})

\* faulty variant: zero_division=0
_prf_divide_zero(numerator, denominator) ==
  IF denominator = 0 THEN Zero ELSE Frac(numerator, denominator)

\* sklearn.metrics._classification._prf_divide with zero_division=1
_prf_divide(numerator, denominator) ==
  IF denominator = 0 THEN One ELSE Frac(numerator, denominator)

class_precision(ys, y_preds, c) ==
  _prf_divide(tp_sum(ys, y_preds, c), pred_sum(ys, y_preds, c))

class_recall(ys, y_preds, c) ==
  _prf_divide(tp_sum(ys, y_preds, c), true_sum(ys, y_preds, c))

\* numpy.sum of a sequence of floats
RECURSIVE np_sum(_)
np_sum(a) == IF a = <<>> THEN Zero ELSE FAdd(a[1], np_sum(Tail(a)))

\* faulty variant: the weighted sum is not divided by the sum of the weights
np_average_unnormalised(a, weights) ==
  np_sum([i \in DOMAIN a |-> FMul(a[i], Frac(weights[i], 1))])

\* numpy.average(a, weights=weights): sum(a * weights) / sum(weights)
np_average(a, weights) ==
  FDiv(np_sum([i \in DOMAIN a |-> FMul(a[i], Frac(weights[i], 1))]),
       np_sum([i \in DOMAIN a |-> Frac(weights[i], 1)]))

\* numpy.mean
np_mean(a) == FDiv(np_sum(a), Frac(Len(a), 1))

\* faulty variant: average='macro'
precision_score_macro(ys, y_preds) ==
  LET labels == unique_labels(ys, y_preds)
  IN  np_mean([i \in DOMAIN labels |-> class_precision(ys, y_preds, labels[i])])

\* precision_score(ys, y_preds, average='weighted', zero_division=1)
precision_score(ys, y_preds) ==
  LET labels == unique_labels(ys, y_preds)
  IN  np_average([i \in DOMAIN labels |-> class_precision(ys, y_preds, labels[i])],
                 [i \in DOMAIN labels |-> true_sum(ys, y_preds, labels[i])])

\* recall_score(ys, y_preds, average='weighted', zero_division=1)
recall_score(ys, y_preds) ==
  LET labels == unique_labels(ys, y_preds)
  IN  np_average([i \in DOMAIN labels |-> class_recall(ys, y_preds, labels[i])],
                 [i \in DOMAIN labels |-> true_sum(ys, y_preds, labels[i])])

AggregateKeys == {"accuracy", "macro avg", "weighted avg"}

\* classification_report(ys, y_preds, output_dict=True, zero_division=1):
\* one row per class keyed by str(class), then the rows "accuracy" (a bare
\* float), "macro avg" and "weighted avg"
classification_report(ys, y_preds) ==
  LET labels == unique_labels(ys, y_preds)
      p == [i \in DOMAIN labels |-> class_precision(ys, y_preds, labels[i])]
      r == [i \in DOMAIN labels |-> class_recall(ys, y_preds, labels[i])]
      s == [i \in DOMAIN labels |-> true_sum(ys, y_preds, labels[i])]
      row(c) == [precision |-> class_precision(ys, y_preds, c),
                 recall    |-> class_recall(ys, y_preds, c),
                 support   |-> true_sum(ys, y_preds, c)]
      classOf(k) == CHOOSE c \in Range(labels) : str(c) = k
  IN  [k \in {str(c) : c \in Range(labels)} \cup AggregateKeys |->
         IF k = "accuracy" THEN
           Frac(Cardinality({i \in DOMAIN ys : ys[i] = y_preds[i]}), Len(ys))
         ELSE IF k = "macro avg" THEN
           [precision |-> np_mean(p), recall |-> np_mean(r), support |-> Len(ys)]
         ELSE IF k = "weighted avg" THEN
           [precision |-> np_average(p, s), recall |-> np_average(r, s),
            support |-> Len(ys)]
         ELSE row(classOf(k))]

---------------------------------------------------------------------------
(* src/utils.py, lines 108-170 *)

_wgt_precision(ys, y_preds) == precision_score(ys, y_preds)

_wgt_recall(ys, y_preds) == recall_score(ys, y_preds)

_classification_report(ys, y_preds) == classification_report(ys, y_preds)

\* faulty variant: "weighted avg" is missing from the excluded keys
_extract_from_report_two_keys(report, metric) ==
  LET keys == {k \in DOMAIN report : k \notin {"accuracy", "macro avg"}}
  IN  [k \in keys |-> report[k][metric]]

\* keeps the keys that are none of the three aggregate rows, each with the
\* row's value of the metric
_extract_from_report(report, metric) ==
  LET keys == {k \in DOMAIN report : k \notin {"accuracy", "macro avg", "weighted avg"}}
  IN  [k \in keys |-> report[k][metric]]

---------------------------------------------------------------------------
(* src/utils.py, lines 173-208: the calls made on the SummaryWriter *)

\* writer.add_scalars(f'{run_type}/{metric_name}', metrics, number)
tb_add_scalars(run_type, metric_name, metrics, number) ==
  [kind |-> "scalars", tag |-> run_type \o "/" \o metric_name,
   value |-> metrics, step |-> number]

\* faulty variant: the key is not scoped by the run type
tb_add_scalar_unscoped(run_type, metric_name, metric, number) ==
  [kind |-> "scalar", tag |-> metric_name, value |-> metric, step |-> number]

\* faulty variant: the step is the writer's own record count, not the caller's number
tb_add_scalar_auto_step(run_type, metric_name, metric, number) ==
  [kind |-> "scalar", tag |-> run_type \o "/" \o metric_name,
   value |-> metric, step |-> Len(writer)]

\* writer.add_scalar(f'{run_type}/{metric_name}', metric, number)
tb_add_scalar(run_type, metric_name, metric, number) ==
  [kind |-> "scalar", tag |-> run_type \o "/" \o metric_name,
   value |-> metric, step |-> number]

---------------------------------------------------------------------------
(* src/utils.py, lines 76-105 *)

NoMetrics == [ok |-> FALSE]
NoCall == [run_type |-> "", number |-> 0, ys |-> <<>>, y_preds |-> <<>>, loss |-> Zero]
NoResult == [status |-> "none", value |-> <<>>, failed |-> {}]

\* lines 92-96: the handler's locals
calc_metrics(ys, y_preds) ==
  LET report == _classification_report(ys, y_preds)
  IN  [ok                 |-> TRUE,
       wgt_precision      |-> _wgt_precision(ys, y_preds),
       wgt_recall         |-> _wgt_recall(ys, y_preds),
       report             |-> report,
       precision_by_class |-> _extract_from_report(report, "precision"),
       recall_by_class    |-> _extract_from_report(report, "recall")]

\* lines 99-103: the five writes, in program order
log_metrics(run_type, number, loss, m) ==
  << tb_add_scalar(run_type, "avg_loss", loss, number),
     tb_add_scalar(run_type, "wgt_precision", m.wgt_precision, number),
     tb_add_scalar(run_type, "wgt_recall", m.wgt_recall, number),
     tb_add_scalars(run_type, "precision_by_class", m.precision_by_class, number),
     tb_add_scalars(run_type, "recall_by_class", m.recall_by_class, number) >>

\* The whole handler.  rejected is the position (1..5) of the first write the
\* writer refuses, 0 if it accepts all five.  Line 92 raises ValueError on
\* vectors of different lengths; a write the writer refuses raises out of the
\* handler at once (no try/except in lines 98-103), so the later writes are
\* not made and line 105 is not reached.
handler(run_type, number, ys, y_preds, loss, rejected) ==
  IF ~check_consistent_length(ys, y_preds) THEN
    [status |-> "ValueError", value |-> <<>>, failed |-> {},
     computed |-> NoMetrics, attempts |-> <<>>, appended |-> <<>>]
  ELSE
    LET m == calc_metrics(ys, y_preds)
        writes == log_metrics(run_type, number, loss, m)
        made == IF rejected = 0 THEN 5 ELSE rejected
        done == IF rejected = 0 THEN 5 ELSE rejected - 1
    IN  [status   |-> IF rejected = 0 THEN "returned" ELSE "SinkError",
         value    |-> IF rejected = 0 THEN <<m.wgt_precision, m.wgt_recall>> ELSE <<>>,
         failed   |-> IF rejected = 0 THEN {} ELSE {writes[rejected].tag},
         computed |-> m,
         attempts |-> [i \in 1..made |-> [tag |-> writes[i].tag, ok |-> i # rejected]],
         appended |-> SubSeq(writes, 1, done)]

---------------------------------------------------------------------------
(* Actions *)

Init ==
  /\ pc = "start"
  /\ writer = <<>>
  /\ ncalls = 0
  /\ call = NoCall
  /\ computed = NoMetrics
  /\ attempts = <<>>
  /\ result = NoResult
  /\ prev = [call |-> NoCall, result |-> NoResult]

\* lines 66-73: the writer is opened; add_graph may fail, which is printed
\* and swallowed
create_summary_writer(graph_ok) ==
  /\ pc = "start"
  /\ pc' = "ready"
  /\ writer' = IF graph_ok
               THEN <<[kind |-> "graph", tag |-> "", value |-> <<>>, step |-> 0]>>
               ELSE <<>>
  /\ UNCHANGED <<ncalls, call, computed, attempts, result, prev>>

\* lines 76-105.  An exception that leaves the handler is caught nowhere in
\* utils.py or main.py: it ends the run.
calc_metrics_log_summaries(run_type, number, ys, y_preds, loss, rejected) ==
  /\ pc = "ready"
  /\ \E out \in {handler(run_type, number, ys, y_preds, loss, rejected)} :
       /\ pc' = IF out.status = "returned" THEN "ready" ELSE "raised"
       /\ writer' = writer \o out.appended
       /\ computed' = out.computed
       /\ attempts' = out.attempts
       /\ result' = [status |-> out.status, value |-> out.value, failed |-> out.failed]
  /\ ncalls' = ncalls + 1
  /\ call' = [run_type |-> run_type, number |-> number, ys |-> ys,
              y_preds |-> y_preds, loss |-> loss]
  /\ prev' = [call |-> call, result |-> result]

---------------------------------------------------------------------------
(* Specifications *)

\* One evaluation pass over every pair of equal-length vectors; the writer
\* accepts every write.
Evaluate ==
  /\ pc = "ready"
  /\ ncalls = 0
  /\ \E n \in 1..MaxLen :
       \E ys \in [1..n -> 0..(NumClasses - 1)], y_preds \in [1..n -> 0..(NumClasses - 1)] :
         calc_metrics_log_summaries("val", MaxStep, ys, y_preds, Frac(1, 2), 0)

Next == (\E g \in BOOLEAN : create_summary_writer(g)) \/ Evaluate

Spec == Init /\ [][Next]_vars

\* One call with any vectors (equal length or not), any run context and any
\* behaviour of the writer.
EvaluateSink ==
  /\ pc = "ready"
  /\ ncalls = 0
  /\ \E ys \in Vectors(SinkMaxLen, SinkNumClasses), y_preds \in Vectors(SinkMaxLen, SinkNumClasses) :
       \E run_type \in RunTypes, number \in 0..MaxStep, loss \in Losses, rejected \in 0..5 :
         calc_metrics_log_summaries(run_type, number, ys, y_preds, loss, rejected)

NextSink == (\E g \in BOOLEAN : create_summary_writer(g)) \/ EvaluateSink

SpecSink == Init /\ [][NextSink]_vars

\* Two successive calls on the same writer.
EvaluateTwice ==
  /\ pc = "ready"
  /\ ncalls < 2
  /\ \E ys \in Vectors(TwiceMaxLen, 2), y_preds \in Vectors(TwiceMaxLen, 2) :
       \E run_type \in RunTypes, number \in 0..MaxStep, rejected \in 0..5 :
         calc_metrics_log_summaries(run_type, number, ys, y_preds, Frac(1, 2), rejected)

NextTwice == (\E g \in BOOLEAN : create_summary_writer(g)) \/ EvaluateTwice

SpecTwice == Init /\ [][NextTwice]_vars

---------------------------------------------------------------------------
(* Properties *)

Returned == ncalls >= 1 /\ result.status = "returned"

\* C1: if the writer rejects the write of any one of the five records, a
\* write is still attempted for each of the other four, and the error raised
\* after the five attempts names exactly the keys whose writes failed.
C1_AllFiveAttempted ==
  (ncalls >= 1 /\ result.status = "SinkError") =>
    /\ Len(attempts) = 5
    /\ result.failed = {attempts[i].tag : i \in {j \in DOMAIN attempts : ~attempts[j].ok}}

\* C2: a call with equal-length vectors hands the computed pair (weighted
\* precision, weighted recall) to its caller whether or not a write fails.
C2_PairDeliveredDespiteLogFailure ==
  (ncalls >= 1 /\ Len(call.ys) = Len(call.y_preds)) =>
    /\ computed.ok
    /\ result.value = <<computed.wgt_precision, computed.wgt_recall>>

\* C3: a call with vectors of different lengths fails with the validation
\* error before anything is computed and without any call on the writer, so
\* the writer's records are unchanged.
C3_MismatchFailsBeforeLogging ==
  [][(ncalls' = ncalls + 1 /\ Len(call'.ys) # Len(call'.y_preds)) =>
       /\ result'.status = "ValueError"
       /\ result'.value = <<>>
       /\ ~computed'.ok
       /\ attempts' = <<>>
       /\ writer' = writer]_vars

C3_Witness ==
  /\ ncalls = 1
  /\ Len(call.ys) # Len(call.y_preds)
  /\ result.status = "ValueError"
  /\ Len(writer) = 1

\* C4: a call that returns appends exactly five records, in order avg_loss
\* (the loss), wgt_precision and wgt_recall (the returned pair),
\* precision_by_class and recall_by_class (the per-class maps), each keyed
\* "{run_type}/{metric}" and stamped with the caller's step number.
C4_FiveRecordsAppended ==
  [][(ncalls' = ncalls + 1 /\ result'.status = "returned") =>
       LET n == Len(writer)
           c == call'
           w == writer'
       IN  /\ Len(w) = n + 5
           /\ SubSeq(w, 1, n) = writer
           /\ w[n + 1] = [kind |-> "scalar", tag |-> c.run_type \o "/avg_loss",
                          value |-> c.loss, step |-> c.number]
           /\ w[n + 2] = [kind |-> "scalar", tag |-> c.run_type \o "/wgt_precision",
                          value |-> result'.value[1], step |-> c.number]
           /\ w[n + 3] = [kind |-> "scalar", tag |-> c.run_type \o "/wgt_recall",
                          value |-> result'.value[2], step |-> c.number]
           /\ w[n + 4] = [kind |-> "scalars", tag |-> c.run_type \o "/precision_by_class",
                          value |-> computed'.precision_by_class, step |-> c.number]
           /\ w[n + 5] = [kind |-> "scalars", tag |-> c.run_type \o "/recall_by_class",
                          value |-> computed'.recall_by_class, step |-> c.number]]_vars

C4_Witness ==
  /\ Returned
  /\ Len(writer) = 6
  /\ writer[6].tag = "train/recall_by_class"
  /\ writer[6].step = 1

\* C5: the returned weighted precision and weighted recall are each between
\* 0.0 and 1.0 inclusive.
C5_WeightedInUnitInterval ==
  Returned =>
    /\ FLe(Zero, result.value[1]) /\ FLe(result.value[1], One)
    /\ FLe(Zero, result.value[2]) /\ FLe(result.value[2], One)

C5_Witness ==
  /\ Returned
  /\ result.value[1] \notin {Zero, One}
  /\ result.value[2] \notin {Zero, One}

\* C6: if the predictions equal the labels position by position, the call
\* returns (1.0, 1.0) and the per-class precision map gives 1.0 to every
\* class occurring in the labels.
C6_PerfectPredictions ==
  (ncalls >= 1 /\ call.y_preds = call.ys) =>
    /\ result.status = "returned"
    /\ result.value = <<One, One>>
    /\ \A c \in Range(call.ys) : computed.precision_by_class[str(c)] = One

C6_Witness ==
  /\ Returned
  /\ call.y_preds = call.ys
  /\ Cardinality(Range(call.ys)) >= 2

\* C7: a class that occurs in the labels and never in the predictions has
\* precision 1.0 in the report and in the per-class precision map, and enters
\* the weighted precision with 1.0: the weighted precision is at least the
\* share of the labels that belong to such classes.
C7_NeverPredictedClassIsOne ==
  Returned =>
    LET never == Range(call.ys) \ Range(call.y_preds)
        share == Cardinality({i \in DOMAIN call.ys : call.ys[i] \in never})
    IN  /\ \A c \in never :
             /\ computed.report[str(c)].precision = One
             /\ computed.precision_by_class[str(c)] = One
        /\ FLe(Frac(share, Len(call.ys)), result.value[1])

C7_Witness ==
  /\ Returned
  /\ Range(call.ys) \ Range(call.y_preds) # {}
  /\ Range(call.ys) \cap Range(call.y_preds) # {}

\* C8: both per-class maps hold none of the keys "accuracy", "macro avg",
\* "weighted avg"; their keys are the report's keys without those three, that
\* is the classes of the labels or the predictions, each with the report's
\* value of the metric for the class.
PerClassMapOf(m, report, metric, ys, y_preds) ==
  /\ DOMAIN m \cap {"accuracy", "macro avg", "weighted avg"} = {}
  /\ DOMAIN m = DOMAIN report \ {"accuracy", "macro avg", "weighted avg"}
  /\ DOMAIN m = {str(c) : c \in Range(ys) \cup Range(y_preds)}
  /\ \A k \in DOMAIN m : m[k] = report[k][metric]

C8_ProjectionKeepsClassKeysOnly ==
  (ncalls >= 1 /\ computed.ok) =>
    /\ PerClassMapOf(computed.precision_by_class, computed.report, "precision",
                     call.ys, call.y_preds)
    /\ PerClassMapOf(computed.recall_by_class, computed.report, "recall",
                     call.ys, call.y_preds)

C8_Witness ==
  /\ ncalls >= 1
  /\ computed.ok
  /\ {"accuracy", "macro avg", "weighted avg"} \subseteq DOMAIN computed.report
  /\ DOMAIN computed.precision_by_class = {"0", "1"}
  /\ computed.precision_by_class["0"] # computed.recall_by_class["0"]

TP(ys, y_preds, c) == Cardinality({i \in DOMAIN ys : ys[i] = c /\ y_preds[i] = c})
FP(ys, y_preds, c) == Cardinality({i \in DOMAIN ys : ys[i] # c /\ y_preds[i] = c})
FN(ys, y_preds, c) == Cardinality({i \in DOMAIN ys : ys[i] = c /\ y_preds[i] # c})

Ratio(num, den) == IF den = 0 THEN One ELSE Frac(num, den)

RECURSIVE SupportWeighted(_, _, _, _)
SupportWeighted(S, ys, y_preds, metric) ==
  IF S = {} THEN Zero
  ELSE LET c == CHOOSE x \in S : TRUE
           tp == TP(ys, y_preds, c)
           m == IF metric = "precision" THEN Ratio(tp, tp + FP(ys, y_preds, c))
                                        ELSE Ratio(tp, tp + FN(ys, y_preds, c))
           support == tp + FN(ys, y_preds, c)
       IN  FAdd(Frac(support * m[1], m[2] * Len(ys)),
                SupportWeighted(S \ {c}, ys, y_preds, metric))

C10_SupportWeightedAverages ==
  Returned =>
    LET classes == Range(call.ys) \cup Range(call.y_preds)
    IN  /\ result.value[1] = SupportWeighted(classes, call.ys, call.y_preds, "precision")
        /\ result.value[2] = SupportWeighted(classes, call.ys, call.y_preds, "recall")
        /\ (call.ys = <<0, 0, 1, 1>> /\ call.y_preds = <<0, 1, 1, 1>>) =>
             result.value = << <<5, 6>>, <<3, 4>> >>

C10_Witness ==
  /\ Returned
  /\ call.ys = <<0, 0, 1, 1>>
  /\ call.y_preds = <<0, 1, 1, 1>>
  /\ result.value = << <<5, 6>>, <<3, 4>> >>

=============================================================================
